---- MODULE Spec2Model ----
(***************************************************************************)
(* ChaCha20 stream cipher (src/src/lib.rs): the mixing engine, the state   *)
(* builder, the keystream serializer and the cursor object ChaCha20 with   *)
(* its operations new, new_from_block, apply_keystream, get_keystream,     *)
(* seek and block.                                                         *)
(*                                                                         *)
(* A u32 is the pair <<hi, lo>> of its 16-bit halves (value hi*2^16 + lo), *)
(* so that every 32-bit value, 2^32 - 1 included, is represented exactly.  *)
(* A byte is an integer in 0..255; an array or slice of bytes is a         *)
(* sequence (index i of the code is index i + 1 of the sequence); the      *)
(* sixteen-word state is a function on 0..15, indexed as in the code.      *)
(***************************************************************************)
EXTENDS Integers, Sequences, FiniteSets, TLC

VARIABLES
    chacha,           \* the ChaCha20 instance: [key, nonce, inner, seek]
    buf,              \* the caller's buffer, as the last apply_keystream left it
    overflow_checks,  \* build profile: TRUE when u32 `+` panics on overflow
    panicked,         \* TRUE once an operation has panicked
    op,               \* history: name of the last operation
    arg,              \* history: u32 argument of the last operation
    ret,              \* history: array returned by the last get_keystream
    last,             \* history: the last apply_keystream call
    first,            \* history: the apply_keystream call before `last`
    napply,           \* history: number of apply_keystream calls so far
    qstate,           \* mixing engine: a sixteen-word state
    qprev,            \* mixing engine: qstate before the last quarter round
    qidx,             \* mixing engine: indices (a, b, c, d) of the last one
    qsteps            \* mixing engine: quarter rounds applied so far

vars == <<chacha, buf, overflow_checks, panicked, op, arg, ret, last, first,
          napply, qstate, qprev, qidx, qsteps>>

cipher_vars == <<chacha, buf, overflow_checks, panicked, op, arg, ret, last,
                 first, napply>>

engine_vars == <<qstate, qprev, qidx, qsteps>>

-----------------------------------------------------------------------------
(* Sequencing.  A statement of the code is written {e(x) : x \in S}, where S *)
(* holds the one value the statements before it left and e is its effect:    *)
(* each statement is evaluated once, on a value.  A sequence of statements   *)
(* is read from the innermost set outwards.                                  *)

Only(S) == CHOOSE x \in S : TRUE

-----------------------------------------------------------------------------
(* 32-bit words *)

W16 == 256 * 256

U32 == (0..(W16 - 1)) \X (0..(W16 - 1))

U32_MAX == <<W16 - 1, W16 - 1>>

ZERO == <<0, 0>>

ONE == <<0, 1>>

\* The u32 of a natural number below 2^31.
u32_of(n) == <<n \div W16, n % W16>>

\* u32::wrapping_add
wrapping_add(x, y) ==
    LET lo == x[2] + y[2]
    IN  <<(x[1] + y[1] + (lo \div W16)) % W16, lo % W16>>

\* TRUE when x + y does not fit in 32 bits.
add_overflows(x, y) == x[1] + y[1] + ((x[2] + y[2]) \div W16) >= W16

\* `^` on the low n bits of two naturals.
RECURSIVE xor_bits(_, _, _)
xor_bits(x, y, n) ==
    IF n = 0 THEN 0
    ELSE ((x + y) % 2) + 2 * xor_bits(x \div 2, y \div 2, n - 1)

\* `^` on u32
bitxor(x, y) == <<xor_bits(x[1], y[1], 16), xor_bits(x[2], y[2], 16)>>

\* `^` on u8
bytexor(c, k) == xor_bits(c, k, 8)

Pow2(n) ==
    CASE n = 4 -> 16 [] n = 7 -> 128 [] n = 8 -> 256 [] n = 9 -> 512
      [] n = 12 -> 4096

\* u32::rotate_left, for the rotation amounts 7, 8, 12 and 16
rotate_left(x, r) ==
    Only({IF r = 16 THEN <<w[2], w[1]>>
          ELSE <<((w[1] * Pow2(r)) % W16) + (w[2] \div Pow2(16 - r)),
                 ((w[2] * Pow2(r)) % W16) + (w[1] \div Pow2(16 - r))>> :
          w \in {x}})

\* u32::from_le_bytes(b[i .. i + 4])
from_le_bytes(b, i) ==
    <<b[i + 4] * 256 + b[i + 3], b[i + 2] * 256 + b[i + 1]>>

\* u32::to_le_bytes
to_le_bytes(w) == <<w[2] % 256, w[2] \div 256, w[1] % 256, w[1] \div 256>>

-----------------------------------------------------------------------------
(* Mixing engine *)

WORD_1 == <<24944, 30821>>   \* 0x61707865

WORD_2 == <<13088, 25710>>   \* 0x3320646e

WORD_3 == <<31074, 11570>>   \* 0x79622d32

WORD_4 == <<27424, 25972>>   \* 0x6b206574

CHACHA_ROUND_INDICIES ==
    << <<0, 4, 8, 12>>, <<1, 5, 9, 13>>, <<2, 6, 10, 14>>, <<3, 7, 11, 15>>,
       <<0, 5, 10, 15>>, <<1, 6, 11, 12>>, <<2, 7, 8, 13>>, <<3, 4, 9, 14>> >>

CHACHA_BLOCKSIZE == 64

\* quarter_round with the last rotation by 8 bits in place of 7.
quarter_round_rotate_8(state, a, b, c, d) ==
    Only(
    {[s7 EXCEPT ![b] = rotate_left(bitxor(s7[b], s7[c]), 8)] : s7 \in
    {[s6 EXCEPT ![c] = wrapping_add(s6[c], s6[d])] : s6 \in
    {[s5 EXCEPT ![d] = rotate_left(bitxor(s5[d], s5[a]), 8)] : s5 \in
    {[s4 EXCEPT ![a] = wrapping_add(s4[a], s4[b])] : s4 \in
    {[s3 EXCEPT ![b] = rotate_left(bitxor(s3[b], s3[c]), 12)] : s3 \in
    {[s2 EXCEPT ![c] = wrapping_add(s2[c], s2[d])] : s2 \in
    {[s1 EXCEPT ![d] = rotate_left(bitxor(s1[d], s1[a]), 16)] : s1 \in
    {[s0 EXCEPT ![a] = wrapping_add(s0[a], s0[b])] : s0 \in {state}}}}}}}}})

quarter_round(state, a, b, c, d) ==
    Only(
    {[s7 EXCEPT ![b] = rotate_left(bitxor(s7[b], s7[c]), 7)] : s7 \in
    {[s6 EXCEPT ![c] = wrapping_add(s6[c], s6[d])] : s6 \in
    {[s5 EXCEPT ![d] = rotate_left(bitxor(s5[d], s5[a]), 8)] : s5 \in
    {[s4 EXCEPT ![a] = wrapping_add(s4[a], s4[b])] : s4 \in
    {[s3 EXCEPT ![b] = rotate_left(bitxor(s3[b], s3[c]), 12)] : s3 \in
    {[s2 EXCEPT ![c] = wrapping_add(s2[c], s2[d])] : s2 \in
    {[s1 EXCEPT ![d] = rotate_left(bitxor(s1[d], s1[a]), 16)] : s1 \in
    {[s0 EXCEPT ![a] = wrapping_add(s0[a], s0[b])] : s0 \in {state}}}}}}}}})

\* The loop of double_round from the i-th quadruple on.
RECURSIVE double_round_from(_, _)
double_round_from(state, i) ==
    IF i > Len(CHACHA_ROUND_INDICIES) THEN state
    ELSE Only({double_round_from(s, i + 1) : s \in
              {quarter_round(state, q[1], q[2], q[3], q[4]) :
                  q \in {CHACHA_ROUND_INDICIES[i]}}})

double_round(state) == double_round_from(state, 1)

\* The loop `for _ in 0..10 { double_round(state) }` with n iterations left.
RECURSIVE rounds(_, _)
rounds(state, n) ==
    IF n = 0 THEN state
    ELSE Only({rounds(s, n - 1) : s \in {double_round(state)}})

chacha_block(state) ==
    Only(UNION
    {{[i \in 0..15 |-> wrapping_add(modified[i], initial_state[i])] :
          modified \in {rounds(initial_state, 10)}} :
     initial_state \in {state}})

prepare_state(key, nonce, count) ==
    [i \in 0..15 |->
        CASE i = 0 -> WORD_1
          [] i = 1 -> WORD_2
          [] i = 2 -> WORD_3
          [] i = 3 -> WORD_4
          [] i \in 4..11 -> from_le_bytes(key, 4 * (i - 4))
          [] i = 12 -> count
          [] OTHER -> from_le_bytes(nonce, 4 * (i - 13))]

keystream_from_state(state) ==
    Only({[index \in 1..64 |->
              to_le_bytes(words[(index - 1) \div 4])[((index - 1) % 4) + 1]] :
          words \in {state}})

-----------------------------------------------------------------------------
(* Inputs *)

\* Longest buffer handed to apply_keystream.
MaxLen == 129

\* Number of apply_keystream calls in one behaviour.
MaxApplies == 2

\* Number of quarter rounds applied in one behaviour of the mixing engine.
MaxQuarterRounds == 2

\* 000102...1f, the key of the tests
Key1 == [i \in 1..32 |-> i - 1]

Key2 == [i \in 1..32 |-> 255 - 3 * i]

\* 000000000000004a00000000 and 000000090000004a00000000, the nonces of the tests
Nonce1 == [i \in 1..12 |-> IF i = 8 THEN 74 ELSE 0]

Nonce2 == [i \in 1..12 |-> IF i = 4 THEN 9 ELSE IF i = 8 THEN 74 ELSE 0]

\* The (key, nonce) pairs an instance is constructed with.
Sessions == {<<Key1, Nonce1>>, <<Key2, Nonce2>>}

\* Byte indices handed to new and seek: 64 + 5 and 2^32 - 1.
SeekArgs == {<<0, 69>>, U32_MAX}

\* Block indices handed to new_from_block, block and get_keystream:
\* 1 and 2^32 - 1.
BlockArgs == {<<0, 1>>, U32_MAX}

Lens == {0, 1, CHACHA_BLOCKSIZE - 1, CHACHA_BLOCKSIZE, CHACHA_BLOCKSIZE + 1, MaxLen}

\* The message of length n.
Message(n) == [i \in 1..n |-> (7 * i + 8) % 256]

-----------------------------------------------------------------------------
(* Keystream *)

\* prepare_state, chacha_block and keystream_from_state in sequence: the 64
\* bytes of block `count`.
block_keystream(key, nonce, count) ==
    keystream_from_state(chacha_block(prepare_state(key, nonce, count)))

\* The block counters within MaxLen bytes of an index or block of the inputs.
RECURSIVE Following(_, _)
Following(c, n) ==
    IF n = 0 THEN {c} ELSE {c} \cup Following(wrapping_add(c, ONE), n - 1)

Counters ==
    UNION {Following(c, MaxApplies * ((MaxLen + 63) \div 64) + 1) :
             c \in BlockArgs
                   \cup {u32_of(i[1] * 1024 + (i[2] \div 64)) : i \in SeekArgs}}

\* block_keystream, evaluated once for the blocks the inputs reach.
KeystreamTable ==
    [x \in Sessions |-> [count \in Counters |-> block_keystream(x[1], x[2], count)]]

keystream_block(key, nonce, count) ==
    IF <<key, nonce>> \in Sessions /\ count \in Counters
    THEN KeystreamTable[<<key, nonce>>][count]
    ELSE block_keystream(key, nonce, count)

\* keystream_at_slice with the window taken at the start of the two blocks.
keystream_at_slice_from_0(key, nonce, inner, offset) ==
    IF overflow_checks /\ add_overflows(inner, ONE)
    THEN [panic |-> TRUE, kstream |-> <<>>]
    ELSE Only({[panic |-> FALSE, kstream |-> SubSeq(keystream, 1, 64)] :
               keystream \in
               {keystream_block(key, nonce, inner)
                    \o keystream_block(key, nonce, wrapping_add(inner, ONE))}})

keystream_at_slice(key, nonce, inner, offset) ==
    IF overflow_checks /\ add_overflows(inner, ONE)
    THEN [panic |-> TRUE, kstream |-> <<>>]
    ELSE Only({[panic |-> FALSE,
                kstream |-> SubSeq(keystream, offset + 1, offset + 64)] :
               keystream \in
               {keystream_block(key, nonce, inner)
                    \o keystream_block(key, nonce, wrapping_add(inner, ONE))}})

-----------------------------------------------------------------------------
(* The cipher instance *)

\* index / 64 for a u32 index
div_64(index) == u32_of(index[1] * 1024 + (index[2] \div 64))

\* index % 64 for a u32 index
mod_64(index) == index[2] % 64

\* new with the offset not reduced modulo 64.
new_offset_unreduced(key, nonce, index) ==
    [key |-> key, nonce |-> nonce, inner |-> div_64(index), seek |-> index[2]]

new(key, nonce, index) ==
    [key |-> key, nonce |-> nonce, inner |-> div_64(index), seek |-> mod_64(index)]

new_from_block(key, nonce, blk) ==
    [key |-> key, nonce |-> nonce, inner |-> blk, seek |-> 0]

\* seek that moves to the start of the block of the index.
seek_to_block_start(self, index) ==
    [self EXCEPT !.inner = div_64(index), !.seek = 0]

seek(self, index) ==
    [self EXCEPT !.inner = div_64(index), !.seek = mod_64(index)]

\* block that keeps the offset.
block_keeping_offset(self, blk) == [self EXCEPT !.inner = blk]

block(self, blk) == [self EXCEPT !.inner = blk, !.seek = 0]

\* get_keystream that does not reposition the cursor.
get_keystream_in_place(self, blk) ==
    Only({[self |-> moved, panic |-> ks.panic, ret |-> ks.kstream] :
          <<moved, ks>> \in
          {<<m, keystream_at_slice(m.key, m.nonce, m.inner, m.seek)>> :
              m \in {self}}})

get_keystream(self, blk) ==
    Only({[self |-> moved, panic |-> ks.panic, ret |-> ks.kstream] :
          <<moved, ks>> \in
          {<<m, keystream_at_slice(m.key, m.nonce, m.inner, m.seek)>> :
              m \in {block(self, blk)}}})

\* `for (c, k) in to[from..until].iter_mut().zip(kstream.iter()) { *c ^= *k }`
\* (from and until are the code's 0-based bounds, until exclusive).
xor_zip(to, from, until, kstream) ==
    [i \in 1..Len(to) |->
        IF i > from /\ i <= until /\ i - from <= Len(kstream)
        THEN bytexor(to[i], kstream[i - from])
        ELSE to[i]]

\* The loop state with the block index left as it is.
increment_inner_skipped(st) == st

\* `self.inner += 1` on the loop state st = [self, to, j, panic].
increment_inner(st) ==
    IF st.panic THEN st
    ELSE IF overflow_checks /\ add_overflows(st.self.inner, ONE)
    THEN [st EXCEPT !.panic = TRUE]
    ELSE [st EXCEPT !.self.inner = wrapping_add(st.self.inner, ONE)]

\* The loop state st with the keystream at its cursor.
with_keystream(st) ==
    {<<s, keystream_at_slice(s.self.key, s.self.nonce, s.self.inner, s.self.seek)>> :
        s \in {st}}

\* An iteration of the loop that does not advance the block index.
full_block_same_index(st) ==
    Only({IF kstream.panic THEN [s EXCEPT !.panic = TRUE]
          ELSE [s EXCEPT !.to = xor_zip(s.to, s.j * CHACHA_BLOCKSIZE,
                                        (s.j + 1) * CHACHA_BLOCKSIZE,
                                        kstream.kstream),
                         !.j = s.j + 1] :
          <<s, kstream>> \in with_keystream(st)})

\* One iteration of `while j < num_full_blocks`.
full_block(st) ==
    Only({increment_inner(xored) : xored \in
         {IF kstream.panic THEN [s EXCEPT !.panic = TRUE]
          ELSE [s EXCEPT !.to = xor_zip(s.to, s.j * CHACHA_BLOCKSIZE,
                                        (s.j + 1) * CHACHA_BLOCKSIZE,
                                        kstream.kstream),
                         !.j = s.j + 1] :
          <<s, kstream>> \in with_keystream(st)}})

RECURSIVE full_blocks(_, _)
full_blocks(st, num_full_blocks) ==
    Only({IF s.panic \/ ~(s.j < num_full_blocks) THEN s
          ELSE full_blocks(full_block(s), num_full_blocks) : s \in {st}})

\* The partial chunk without the advance of the block index after it.
last_block_same_index(st) ==
    Only({IF kstream.panic THEN [s EXCEPT !.panic = TRUE]
          ELSE [s EXCEPT !.to = xor_zip(s.to, s.j * CHACHA_BLOCKSIZE, Len(s.to),
                                        kstream.kstream)] :
          <<s, kstream>> \in with_keystream(st)})

\* The body of `if to.len() % 64 > 0 { ... }`.
last_block(st) ==
    Only({increment_inner(xored) : xored \in
         {IF kstream.panic THEN [s EXCEPT !.panic = TRUE]
          ELSE [s EXCEPT !.to = xor_zip(s.to, s.j * CHACHA_BLOCKSIZE, Len(s.to),
                                        kstream.kstream)] :
          <<s, kstream>> \in with_keystream(st)}})

partial_block(st) ==
    Only({IF s.panic \/ ~(Len(s.to) % 64 > 0) THEN s ELSE last_block(s) :
          s \in {st}})

apply_keystream(self, to) ==
    Only({[self |-> st.self, to |-> st.to, panic |-> st.panic] : st \in
         {partial_block(s) : s \in
         {full_blocks([self |-> self, to |-> to, j |-> 0, panic |-> FALSE],
                      Len(to) \div CHACHA_BLOCKSIZE)}}})

-----------------------------------------------------------------------------
(* Operations on the instance *)

NoCall ==
    [valid |-> FALSE, returned |-> FALSE,
     pre |-> new_from_block(Key1, Nonce1, ZERO),
     input |-> <<>>, output |-> <<>>, origin |-> "none", origin_arg |-> ZERO]

\* An apply_keystream call on the instance `self` with the buffer `to`, which
\* it left as `out`; `returned` is FALSE when it panicked; `origin` is the
\* operation that came before it and `origin_arg` that operation's argument.
Call(self, to, out, returned) ==
    [valid |-> TRUE, returned |-> returned, pre |-> self, input |-> to,
     output |-> out, origin |-> op, origin_arg |-> arg]

EngineIdle ==
    /\ qstate = [i \in 0..15 |-> ZERO]
    /\ qprev = [i \in 0..15 |-> ZERO]
    /\ qidx = <<0, 1, 2, 3>>
    /\ qsteps = 0

Constructed(self, name, a) ==
    /\ chacha = self
    /\ op = name
    /\ arg = a
    /\ buf = <<>>
    /\ panicked = FALSE
    /\ ret = <<>>
    /\ last = NoCall
    /\ first = NoCall
    /\ napply = 0

Init ==
    /\ overflow_checks \in BOOLEAN
    /\ \E x \in Sessions :
          \/ \E index \in SeekArgs : Constructed(new(x[1], x[2], index), "new", index)
          \/ \E blk \in BlockArgs :
                Constructed(new_from_block(x[1], x[2], blk), "new_from_block", blk)
    /\ EngineIdle

\* The caller goes on until an operation panics or the last of the
\* MaxApplies apply_keystream calls is made.
Running == ~panicked /\ napply < MaxApplies

New(key, nonce, index) ==
    /\ Running
    /\ chacha' = new(key, nonce, index)
    /\ op' = "new"
    /\ arg' = index
    /\ UNCHANGED <<buf, overflow_checks, panicked, ret, last, first, napply>>
    /\ UNCHANGED engine_vars

NewFromBlock(key, nonce, blk) ==
    /\ Running
    /\ chacha' = new_from_block(key, nonce, blk)
    /\ op' = "new_from_block"
    /\ arg' = blk
    /\ UNCHANGED <<buf, overflow_checks, panicked, ret, last, first, napply>>
    /\ UNCHANGED engine_vars

Seek(index) ==
    /\ Running
    /\ chacha' = seek(chacha, index)
    /\ op' = "seek"
    /\ arg' = index
    /\ UNCHANGED <<buf, overflow_checks, panicked, ret, last, first, napply>>
    /\ UNCHANGED engine_vars

Block(blk) ==
    /\ Running
    /\ chacha' = block(chacha, blk)
    /\ op' = "block"
    /\ arg' = blk
    /\ UNCHANGED <<buf, overflow_checks, panicked, ret, last, first, napply>>
    /\ UNCHANGED engine_vars

GetKeystream(blk) ==
    /\ Running
    /\ \E r \in {get_keystream(chacha, blk)} :
          /\ chacha' = r.self
          /\ panicked' = r.panic
          /\ ret' = r.ret
    /\ op' = "get_keystream"
    /\ arg' = blk
    /\ UNCHANGED <<buf, overflow_checks, last, first, napply>>
    /\ UNCHANGED engine_vars

\* `first` keeps the call before this one when this one goes on from it:
\* when it follows it directly, or takes the buffer it left.
ApplyKeystream(to) ==
    /\ Running
    /\ \E r \in {apply_keystream(chacha, to)} :
          /\ chacha' = r.self
          /\ panicked' = r.panic
          /\ buf' = r.to
          /\ last' = Call(chacha, to, r.to, ~r.panic)
    /\ first' = IF last.valid /\ (op = "apply_keystream" \/ to = buf)
                THEN last ELSE NoCall
    /\ napply' = napply + 1
    /\ op' = "apply_keystream"
    /\ arg' = ZERO
    /\ UNCHANGED <<overflow_checks, ret>>
    /\ UNCHANGED engine_vars

\* The caller encrypts a message, or applies the keystream again to the
\* buffer the last call left; once it has moved the cursor after a call, it
\* applies the keystream again to that buffer.
Buffers ==
    IF last.valid /\ op # "apply_keystream" THEN {buf}
    ELSE {Message(n) : n \in Lens} \cup (IF last.valid THEN {buf} ELSE {})

\* An instance is constructed again with the key and nonce of the session.
Next ==
    \/ \E index \in SeekArgs : New(chacha.key, chacha.nonce, index)
    \/ \E blk \in BlockArgs : NewFromBlock(chacha.key, chacha.nonce, blk)
    \/ \E index \in SeekArgs : Seek(index)
    \/ \E blk \in BlockArgs : Block(blk)
    \/ \E blk \in BlockArgs : GetKeystream(blk)
    \/ \E to \in Buffers : ApplyKeystream(to)

Spec == Init /\ [][Next]_vars

-----------------------------------------------------------------------------
(* The mixing engine on its own: quarter rounds on a sixteen-word state *)

\* The state of test_quater_round.
TestState1 ==
    [i \in 0..15 |->
        CASE i % 4 = 0 -> <<4369, 4369>>       \* 0x11111111
          [] i % 4 = 1 -> <<258, 772>>         \* 0x01020304
          [] i % 4 = 2 -> <<39821, 28483>>     \* 0x9b8d6f43
          [] OTHER -> <<291, 17767>>]          \* 0x01234567

\* The state of test_quater_round_on_block.
TestState2 ==
    [i \in 0..15 |->
        << <<34709, 12768>>, <<50668, 62333>>, <<20836, 25009>>, <<51622, 12170>>,
           <<17602, 3827>>, <<13200, 44927>>, <<55804, 26891>>, <<10847, 29004>>,
           <<21303, 10087>>, <<45066, 22065>>, <<38732, 21530>>, <<13726, 39267>>,
           <<23703, 4193>>, <<15715, 5769>>, <<8344, 55766>>, <<37339, 54048>> >>[i + 1]]

\* Every word 0xffffffff: each addition overflows.
AllOnes == [i \in 0..15 |-> U32_MAX]

EngineStates == {TestState1, TestState2, AllOnes, prepare_state(Key1, Nonce2, ONE)}

Quadruples ==
    {<<0, 1, 2, 3>>} \cup {CHACHA_ROUND_INDICIES[i] : i \in 1..Len(CHACHA_ROUND_INDICIES)}

InitEngine ==
    /\ overflow_checks = TRUE
    /\ Constructed(new(Key1, Nonce1, ZERO), "new", ZERO)
    /\ qstate \in EngineStates
    /\ qprev = qstate
    /\ qidx = <<0, 1, 2, 3>>
    /\ qsteps = 0

QuarterRound(a, b, c, d) ==
    /\ qsteps < MaxQuarterRounds
    /\ qstate' = quarter_round(qstate, a, b, c, d)
    /\ qprev' = qstate
    /\ qidx' = <<a, b, c, d>>
    /\ qsteps' = qsteps + 1
    /\ UNCHANGED cipher_vars

NextEngine == \E q \in Quadruples : QuarterRound(q[1], q[2], q[3], q[4])

SpecEngine == InitEngine /\ [][NextEngine]_vars

-----------------------------------------------------------------------------
(* Properties *)

\* ceil(n / 64): the chunks of a buffer of n bytes
Chunks(n) == (n + CHACHA_BLOCKSIZE - 1) \div CHACHA_BLOCKSIZE

\* Byte i (from 0) of the continuous keystream of (key, nonce) counted from
\* byte `offset` of block `inner`: block indices are taken modulo 2^32.
KeystreamByte(key, nonce, inner, offset, i) ==
    keystream_block(key, nonce,
                    wrapping_add(inner, u32_of((offset + i) \div CHACHA_BLOCKSIZE)))
        [((offset + i) % CHACHA_BLOCKSIZE) + 1]

\* `input` XOR the continuous keystream from byte `offset` of block `inner`.
XorWithKeystream(key, nonce, inner, offset, input) ==
    [i \in 1..Len(input) |->
        bytexor(input[i], KeystreamByte(key, nonce, inner, offset, i - 1))]

\* The last two apply_keystream calls were made one right after the other and
\* both returned.
Consecutive ==
    /\ first.valid /\ first.returned
    /\ last.valid /\ last.returned
    /\ last.origin = "apply_keystream"

\* C1: a single apply_keystream call on an instance built with
\* new(key, nonce, s) replaces byte i of the buffer with input[i] XOR K[s + i],
\* K the concatenation of the keystream blocks 0, 1, 2, ... of (key, nonce),
\* and leaves the length of the buffer unchanged.
C1_ApplyXorsContinuousKeystream ==
    (last.valid /\ last.returned /\ last.origin = "new") =>
        /\ Len(last.output) = Len(last.input)
        /\ last.output = XorWithKeystream(last.pre.key, last.pre.nonce,
                                          div_64(last.origin_arg),
                                          mod_64(last.origin_arg), last.input)

\* A buffer of MaxLen bytes: two full chunks and a partial one, from an offset
\* inside a block.
C1_Witness ==
    /\ last.valid /\ last.returned /\ last.origin = "new"
    /\ Len(last.input) = MaxLen
    /\ mod_64(last.origin_arg) > 0
    /\ last.output # last.input

\* The call `last` starts where the call `first` started: both follow a
\* new or seek with the same index, or a new_from_block or block with the
\* same block, on instances with the same key and nonce.
SameStart ==
    /\ last.pre.key = first.pre.key
    /\ last.pre.nonce = first.pre.nonce
    /\ last.origin_arg = first.origin_arg
    /\ \/ {first.origin, last.origin} \subseteq {"new", "seek"}
       \/ {first.origin, last.origin} \subseteq {"new_from_block", "block"}

\* C2: applying apply_keystream to a buffer and then again to the result,
\* from the same starting position (a fresh instance with the same key, nonce
\* and index, or the same instance after seek(index) or block(block)),
\* restores the buffer.
C2_Involution ==
    (/\ first.valid /\ first.returned
     /\ last.valid /\ last.returned
     /\ last.input = first.output
     /\ SameStart) => last.output = first.input

C2_Witness ==
    /\ first.valid /\ first.returned
    /\ last.valid /\ last.returned
    /\ last.input = first.output
    /\ SameStart
    /\ last.origin = "seek"
    /\ Len(first.input) = MaxLen
    /\ first.output # first.input
    /\ last.output = first.input

\* C3 as stated: after apply_keystream on L bytes at the absolute index
\* s = 64 * block + offset the cursor denotes s + L, and two consecutive calls
\* give the bytes of one call on the concatenated message.
C3_CursorAdvancesByLength ==
    /\ (last.valid /\ last.returned /\ op = "apply_keystream") =>
          /\ chacha.inner =
                wrapping_add(last.pre.inner,
                             u32_of((last.pre.seek + Len(last.input)) \div 64))
          /\ chacha.seek = (last.pre.seek + Len(last.input)) % 64
    /\ Consecutive =>
          first.output \o last.output
              = apply_keystream(first.pre, first.input \o last.input).to

\* C3, amended: after apply_keystream on L bytes at block index b and offset
\* k the next keystream byte produced is byte k of block b + ceil(L / 64):
\* the call that follows XORs its buffer with the keystream from there, and
\* two consecutive calls give the bytes of one call on the concatenated
\* message when the length of the first is a multiple of 64.
C3_CursorAdvancesByChunks ==
    /\ Consecutive =>
          last.output =
              XorWithKeystream(first.pre.key, first.pre.nonce,
                               wrapping_add(first.pre.inner,
                                            u32_of(Chunks(Len(first.input)))),
                               first.pre.seek, last.input)
    /\ (Consecutive /\ Len(first.input) % CHACHA_BLOCKSIZE = 0) =>
          first.output \o last.output
              = apply_keystream(first.pre, first.input \o last.input).to

C3_Witness ==
    /\ Consecutive
    /\ Len(first.input) = CHACHA_BLOCKSIZE + 1
    /\ Len(last.input) = MaxLen
    /\ first.pre.seek > 0
    /\ first.output \o last.output
          # apply_keystream(first.pre, first.input \o last.input).to

\* C4: encrypting a buffer of at most 64 bytes with new(key, nonce, 64n + k)
\* gives the buffer XOR bytes k .. k + L - 1 of get_keystream(n) followed by
\* get_keystream(n + 1), taken from new_from_block(key, nonce, n) after
\* block(n).
C4_OffsetBlockConsistency ==
    (/\ last.valid /\ last.returned /\ last.origin = "new"
     /\ Len(last.input) <= CHACHA_BLOCKSIZE) =>
        \A n \in {div_64(last.origin_arg)}, k \in {mod_64(last.origin_arg)} :
        \A g1 \in {get_keystream(block(new_from_block(last.pre.key,
                                                      last.pre.nonce, n), n), n)} :
        \A g2 \in {get_keystream(g1.self, wrapping_add(n, ONE))} :
            /\ ~g1.panic
            /\ ~g2.panic
            /\ last.output = [i \in 1..Len(last.input) |->
                                 bytexor(last.input[i], (g1.ret \o g2.ret)[k + i])]

\* A buffer of 64 bytes from an offset inside a block: bytes of both blocks.
C4_Witness ==
    /\ last.valid /\ last.returned /\ last.origin = "new"
    /\ Len(last.input) = CHACHA_BLOCKSIZE
    /\ mod_64(last.origin_arg) > 0
    /\ last.output # last.input

\* The keystream returned by the last get_keystream is that of block arg.
ReturnsBlock ==
    ret = keystream_block(chacha.key, chacha.nonce, arg)

\* C5 as stated: get_keystream(b) leaves the cursor at block b + 1, offset 0.
C5_GetKeystreamAdvances ==
    op = "get_keystream" =>
        /\ chacha.inner = wrapping_add(arg, ONE)
        /\ chacha.seek = 0
        /\ ~panicked => ReturnsBlock

\* C5, amended: get_keystream(b), called in any cursor state, repositions the
\* cursor to block b with offset 0 and does not advance it: after the call
\* the cursor is at block b, offset 0; when the call returns, it returns the
\* 64-byte keystream of block b.
C5_GetKeystreamStays ==
    op = "get_keystream" =>
        /\ chacha.inner = arg
        /\ chacha.seek = 0
        /\ ~panicked => ReturnsBlock

C5_Witness ==
    /\ op = "get_keystream"
    /\ ~panicked
    /\ Len(ret) = CHACHA_BLOCKSIZE
    /\ ReturnsBlock
    /\ last.valid /\ last.pre.seek > 0

\* C6: no operation panics because of block-counter overflow: at block index
\* 2^32 - 1, apply_keystream on a non-empty buffer and get_keystream(2^32 - 1)
\* return, and the stored block index after the advance is 0.
C6_CounterWrapsSilently ==
    /\ ~panicked
    /\ (/\ op = "apply_keystream" /\ last.pre.inner = U32_MAX
        /\ Len(last.input) \in 1..CHACHA_BLOCKSIZE) => chacha.inner = ZERO

\* C7: the intra-block offset is in 0..63, so the window
\* keystream[offset .. offset + 64] lies within the 128 bytes.
C7_OffsetBelow64 ==
    /\ chacha.seek \in 0..(CHACHA_BLOCKSIZE - 1)
    /\ chacha.seek + 64 <= 2 * CHACHA_BLOCKSIZE
    /\ last.pre.seek \in 0..(CHACHA_BLOCKSIZE - 1)

C7_Witness ==
    /\ op = "seek"
    /\ chacha.seek = CHACHA_BLOCKSIZE - 1
    /\ last.valid /\ last.returned /\ last.pre.seek = 5

\* C8: apply_keystream on L bytes advances the block index by ceil(L / 64)
\* and changes nothing else of the instance: offset, key and nonce are kept;
\* for L = 0 the instance and the buffer are unchanged.
C8_ApplyChangesOnlyBlockIndex ==
    (last.valid /\ last.returned /\ op = "apply_keystream") =>
        /\ chacha.inner = wrapping_add(last.pre.inner,
                                       u32_of(Chunks(Len(last.input))))
        /\ chacha.seek = last.pre.seek
        /\ chacha.key = last.pre.key
        /\ chacha.nonce = last.pre.nonce
        /\ Len(last.input) = 0 => (chacha = last.pre /\ buf = last.input)

C8_Witness ==
    /\ last.valid /\ last.returned /\ op = "apply_keystream"
    /\ Len(last.input) = MaxLen
    /\ last.pre.seek > 0
    /\ chacha.inner = wrapping_add(last.pre.inner, u32_of(3))

\* The 32 bits of a word, least significant first.
Bits(w) ==
    [i \in 0..31 |-> IF i < 16 THEN (w[2] \div (2 ^ i)) % 2
                     ELSE (w[1] \div (2 ^ (i - 16))) % 2]

\* The carry into bit i of x + y.
RECURSIVE CarryInto(_, _, _)
CarryInto(x, y, i) ==
    IF i = 0 THEN 0 ELSE (x[i - 1] + y[i - 1] + CarryInto(x, y, i - 1)) \div 2

\* x + y modulo 2^32, bit by bit: the carry out of bit 31 is dropped.
AddBits(x, y) == [i \in 0..31 |-> (x[i] + y[i] + CarryInto(x, y, i)) % 2]

XorBits(x, y) == [i \in 0..31 |-> (x[i] + y[i]) % 2]

\* rotl(x, r): bit i of the result is bit i - r (modulo 32) of x.
RotlBits(x, r) == [i \in 0..31 |-> x[(i + 32 - r) % 32]]

\* a += b; d = rotl(d ^ a, 16); c += d; b = rotl(b ^ c, 12);
\* a += b; d = rotl(d ^ a, 8);  c += d; b = rotl(b ^ c, 7)
\* on the bits q = <<a, b, c, d>>.
ArxBits(q) ==
    Only(
    {[q7 EXCEPT ![2] = RotlBits(XorBits(q7[2], q7[3]), 7)] : q7 \in
    {[q6 EXCEPT ![3] = AddBits(q6[3], q6[4])] : q6 \in
    {[q5 EXCEPT ![4] = RotlBits(XorBits(q5[4], q5[1]), 8)] : q5 \in
    {[q4 EXCEPT ![1] = AddBits(q4[1], q4[2])] : q4 \in
    {[q3 EXCEPT ![2] = RotlBits(XorBits(q3[2], q3[3]), 12)] : q3 \in
    {[q2 EXCEPT ![3] = AddBits(q2[3], q2[4])] : q2 \in
    {[q1 EXCEPT ![4] = RotlBits(XorBits(q1[4], q1[1]), 16)] : q1 \in
    {[q0 EXCEPT ![1] = AddBits(q0[1], q0[2])] : q0 \in {q}}}}}}}}})

\* C9: quarter_round(state, a, b, c, d) computes the ARX sequence a += b;
\* d = rotl(d ^ a, 16); c += d; b = rotl(b ^ c, 12); a += b;
\* d = rotl(d ^ a, 8); c += d; b = rotl(b ^ c, 7) with every addition modulo
\* 2^32 and no overflow error, leaves the other twelve words unchanged, and
\* maps 0x11111111, 0x01020304, 0x9b8d6f43, 0x01234567 at (0, 1, 2, 3) to
\* 0xea2a92f4, 0xcb1cf8ce, 0x4581472e, 0x5881c4bb.
C9_QuarterRoundIsArx ==
    qsteps >= 1 =>
        /\ ~panicked
        /\ \A i \in 0..15 : qstate[i] \in U32
        /\ \A i \in (0..15) \ {qidx[k] : k \in 1..4} : qstate[i] = qprev[i]
        /\ [k \in 1..4 |-> Bits(qstate[qidx[k]])]
              = ArxBits([k \in 1..4 |-> Bits(qprev[qidx[k]])])
        /\ (qprev = TestState1 /\ qidx = <<0, 1, 2, 3>>) =>
              /\ qstate[0] = <<59946, 37620>>    \* 0xea2a92f4
              /\ qstate[1] = <<51996, 63694>>    \* 0xcb1cf8ce
              /\ qstate[2] = <<17793, 18222>>    \* 0x4581472e
              /\ qstate[3] = <<22657, 50363>>    \* 0x5881c4bb

\* The quarter round of test_quater_round.
C9_Witness ==
    /\ qsteps = 1
    /\ qprev = TestState1
    /\ qidx = <<0, 1, 2, 3>>
    /\ qstate[0] = <<59946, 37620>>
    /\ qstate[4] = TestState1[4]

\* A position in the keystream: block index and byte within it, the high
\* half of the block index apart so that the numbers stay small.
Position(inner, byte) == <<inner[1], inner[2] * CHACHA_BLOCKSIZE + byte>>

AtOrAfter(p, q) == p[1] > q[1] \/ (p[1] = q[1] /\ p[2] >= q[2])

\* The bytes of the last chunk of a buffer of n > 0 bytes.
LastChunk(n) ==
    IF n % CHACHA_BLOCKSIZE = 0 THEN CHACHA_BLOCKSIZE ELSE n % CHACHA_BLOCKSIZE

\* The end (exclusive) of the keystream consumed by a call on n bytes from
\* byte `offset` of block `inner`: its last chunk is XOR-ed with the bytes
\* from `offset` of block inner + ceil(n / 64) - 1.
EndOfRange(inner, offset, n) ==
    IF n = 0 THEN Position(inner, offset)
    ELSE Position(wrapping_add(inner, u32_of(Chunks(n) - 1)), offset + LastChunk(n))

\* The block index stays below 2^32 - 1 over the two calls.
BelowMax ==
    ~add_overflows(first.pre.inner,
                   u32_of(Chunks(Len(first.input)) + Chunks(Len(last.input)) + 1))

\* Chunk j of the buffer of the call c is XOR-ed with the keystream from byte
\* offset of block inner + j, inner and offset those of the call's start.
ChunkRanges(c) ==
    c.output = [i \in 1..Len(c.input) |->
                   bytexor(c.input[i],
                           KeystreamByte(c.pre.key, c.pre.nonce,
                                         wrapping_add(c.pre.inner,
                                                      u32_of((i - 1) \div CHACHA_BLOCKSIZE)),
                                         c.pre.seek, (i - 1) % CHACHA_BLOCKSIZE))]

\* C10: on an instance on which apply_keystream is called twice in a row,
\* the block index staying below 2^32 - 1, the second call starts at a
\* keystream index greater than or equal to the end of the range the first
\* consumed, so the ranges XOR-ed into the two buffers are disjoint.
C10_NoKeystreamReuse ==
    (Consecutive /\ BelowMax) =>
        /\ ChunkRanges(first)
        /\ ChunkRanges(last)
        /\ last.pre.key = first.pre.key
        /\ last.pre.nonce = first.pre.nonce
        /\ AtOrAfter(Position(last.pre.inner, last.pre.seek),
                     EndOfRange(first.pre.inner, first.pre.seek, Len(first.input)))

C10_Witness ==
    /\ Consecutive /\ BelowMax
    /\ Len(first.input) = CHACHA_BLOCKSIZE
    /\ Len(last.input) = MaxLen
    /\ first.pre.seek > 0
    /\ Position(last.pre.inner, last.pre.seek)
          # EndOfRange(first.pre.inner, first.pre.seek, Len(first.input))

====
